---- MODULE Spec2Model ----
(***************************************************************************)
(* The TCP port scanner: command-line handling, the per-target worker      *)
(* pool (task channel, workers, result channel, wait group, progress       *)
(* counter and its mutex, progress monitor) and the final summary.         *)
(*                                                                         *)
(* The repository holds three programs with the same engine:               *)
(*   "scanner"  src/main.go:1-173    -ports/-start/-end, many targets,     *)
(*                                   summary; counter but no monitor       *)
(*   "monitor"  src/main.go:174-323  -start/-end, many targets, progress   *)
(*                                   monitor goroutine                     *)
(*   "basic"    src/unnamed/part_000 -start/-end, one target, results are  *)
(*                                   plain ints (0 = closed)               *)
(* Strings the code splits, parses or trims are sequences of one-character *)
(* strings, so that Split, Atoi and TrimSpace are computed, not assumed.   *)
(***************************************************************************)
EXTENDS Integers, Sequences, FiniteSets, Bags, TLC

VARIABLES
    prog,           \* which of the three programs runs
    flags,          \* the parsed command line (flag.Parse)
    net,            \* the network the scan runs against
    pc,             \* main's position
    targetsToScan,  \* main: []string
    portsToScan,    \* main: []int
    t,              \* main: index of the target being scanned (1-based), 0 before
    i,              \* main: the collect loop's counter
    scanResults,    \* main: open results of the current target
    openPorts,      \* main: tally of open ports
    allResults,     \* main: global result list
    summary,        \* the summary that is printed, or the empty record <<>>
    tasks,          \* per target: the task channel
    results,        \* per target: the result channel
    wg,             \* per target: the WaitGroup counter
    mutex,          \* per target: holder of the mutex (Free, a worker id, or Monitor)
    progress,       \* per target: the completion counter
    wk,             \* per target: the workers
    prod,           \* per target: the task producer goroutine
    mon,            \* per target: the progress monitor goroutine
    conns,          \* per target, the connections established and not closed
    published,      \* history: per target, the results sent so far, in order
    collected       \* history: per target, the results main has received

vars == <<prog, flags, net, pc, targetsToScan, portsToScan, t, i, scanResults,
          openPorts, allResults, summary, tasks, results, wg, mutex, progress,
          wk, prod, mon, conns, published, collected>>

(***************************************************************************)
(* Bounds of the model.                                                    *)
(***************************************************************************)
\* The command lines that are run have a load of at most MaxLoad, the load
\* being workers + ports scanned per target (+ 1 for the progress monitor, in
\* the program that has one): from MaxLoad workers and no port, over more
\* workers than ports and fewer workers than ports, to no worker and MaxLoad
\* ports.
MaxLoad == 4

(***************************************************************************)
(* Program constants.                                                      *)
(***************************************************************************)
MinPort == 1
MaxPort == 65535
PortsFlagLimit == 102       \* the upper limit the -ports branch tests against
BannerBufSize == 1024

(***************************************************************************)
(* Strings.                                                                *)
(***************************************************************************)
Digits == <<"0", "1", "2", "3", "4", "5", "6", "7", "8", "9">>

IsDigit(c) == \E d \in 1..10 : Digits[d] = c

DigitVal(c) == (CHOOSE d \in 1..10 : Digits[d] = c) - 1

\* strings.Split(s, ","): the pieces between the separators, empty ones kept.
RECURSIVE SplitFrom(_, _, _)
SplitFrom(s, k, cur) ==
    IF k > Len(s) THEN <<cur>>
    ELSE IF s[k] = "," THEN <<cur>> \o SplitFrom(s, k + 1, <<>>)
    ELSE SplitFrom(s, k + 1, Append(cur, s[k]))

Split(s) == SplitFrom(s, 1, <<>>)

\* The value of a run of decimal digits.
RECURSIVE DecimalValue(_)
DecimalValue(s) ==
    IF s = <<>> THEN 0
    ELSE 10 * DecimalValue(SubSeq(s, 1, Len(s) - 1)) + DigitVal(s[Len(s)])

\* strconv.Atoi: an optional sign, then one or more decimal digits.
Atoi(s) ==
    LET signed == s # <<>> /\ s[1] \in {"+", "-"}
        body == IF signed THEN Tail(s) ELSE s
    IN IF body = <<>> \/ \E k \in 1..Len(body) : ~IsDigit(body[k])
       THEN [err |-> TRUE, val |-> 0]
       ELSE [err |-> FALSE,
             val |-> IF signed /\ s[1] = "-" THEN 0 - DecimalValue(body)
                     ELSE DecimalValue(body)]

IsSpace(c) == c \in {" ", "\n", "\t", "\r"}

\* strings.TrimSpace
RECURSIVE TrimLeft(_)
TrimLeft(s) == IF s # <<>> /\ IsSpace(s[1]) THEN TrimLeft(Tail(s)) ELSE s

RECURSIVE TrimRight(_)
TrimRight(s) ==
    IF s # <<>> /\ IsSpace(s[Len(s)]) THEN TrimRight(SubSeq(s, 1, Len(s) - 1)) ELSE s

TrimSpace(s) == TrimRight(TrimLeft(s))

(***************************************************************************)
(* The command lines that are tried.                                       *)
(***************************************************************************)
Progs == {"scanner", "monitor", "basic"}

HostA == <<"a">>

\* -targets: unset, or two hosts.
TargetsFlagValues == {<<>>, <<"a", ",", "b">>}

\* -start: below the port range, its lowest port, its highest port.
StartValues == {MinPort - 1, MinPort, MaxPort}

\* -start/-end pairs: every end from start-1 (start > end) to the longest
\* range the model scans; this includes ends above the port range.
Ranges ==
    UNION {{[start |-> st, end |-> en] : en \in (st - 1)..(st + MaxLoad - 1)} :
              st \in StartValues}

\* -ports values: "22,80,443,8080" (the README's), "1,1", "0,x,,65536",
\* "102,103,+2", "65535" and "3,1,2".
PortsFlagValues ==
    {<<"2", "2", ",", "8", "0", ",", "4", "4", "3", ",", "8", "0", "8", "0">>,
     <<"1", ",", "1">>,
     <<"0", ",", "x", ",", ",", "6", "5", "5", "3", "6">>,
     <<"1", "0", "2", ",", "1", "0", "3", ",", "+", "2">>,
     <<"6", "5", "5", "3", "5">>,
     <<"3", ",", "1", ",", "2">>}

(***************************************************************************)
(* The network: what a dial of (target, port) meets. accept = the TCP      *)
(* handshake completes within the timeout; bytes = what the peer sends     *)
(* unprompted before the read deadline (none: the read returns n = 0).     *)
(***************************************************************************)
Networks == {"lab", "dark"}

Refused == [accept |-> FALSE, bytes |-> <<>>]

Serves(b) == [accept |-> TRUE, bytes |-> b]

Listener(n, target, port) ==
    IF n = "dark" THEN Refused
    ELSE IF target = HostA THEN
        CASE port = 1 -> Serves(<<>>)
          [] port = 3 -> Serves(<<" ", "H", "\n">>)
          [] port = 22 -> Serves(<<"S", "2", "\r", "\n">>)
          [] port = 80 -> Serves(<<"\n">>)
          [] port = 102 -> Serves(<<"x">>)
          [] port = MaxPort -> Serves(<<>>)
          [] OTHER -> Refused
    ELSE
        CASE port = 2 -> Serves(<<"B">>)
          [] port = 80 -> Serves(<<>>)
          [] OTHER -> Refused

(***************************************************************************)
(* main: targets and ports from the flags.                                 *)
(***************************************************************************)
\* main.go:66-71, 232-237; part_000 has -target only.
TargetList(p, f) ==
    IF p # "basic" /\ f.targets # <<>> THEN Split(f.targets) ELSE <<f.target>>

\* The -ports branch's range test.
PortRejected(port) == port < MinPort \/ port > PortsFlagLimit

\* Mutant: the -start/-end test without its lower limit.
InvalidRangeNoLower(start, end) == end > MaxPort \/ start > end

\* The -start/-end test.
InvalidRange(start, end) == start < MinPort \/ end > MaxPort \/ start > end

\* The -ports loop: tokens that parse and pass the range test, in order.
RECURSIVE PortsFromTokens(_)
PortsFromTokens(toks) ==
    IF toks = <<>> THEN <<>>
    ELSE LET a == Atoi(Head(toks))
         IN IF a.err \/ PortRejected(a.val)
            THEN PortsFromTokens(Tail(toks))
            ELSE <<a.val>> \o PortsFromTokens(Tail(toks))

\* for port := start; port <= end; port++
PortRange(start, end) == [k \in 1..(end - start + 1) |-> start + k - 1]

\* The port list main builds, and whether main returns instead.
PortList(p, f) ==
    IF p = "scanner" /\ f.ports # <<>>
    THEN [rejected |-> FALSE, ports |-> PortsFromTokens(Split(f.ports))]
    ELSE IF InvalidRange(f.start, f.end)
         THEN [rejected |-> TRUE, ports |-> <<>>]
         ELSE [rejected |-> FALSE, ports |-> PortRange(f.start, f.end)]

DefaultStart == 1
DefaultEnd == 1024
DefaultTimeout == 5

\* -start/-end are at their defaults when -ports is given (they are not read).
RangeChoices(portsFlag) ==
    IF portsFlag = <<>> THEN Ranges
    ELSE {[start |-> DefaultStart, end |-> DefaultEnd]}

Load(p, f) ==
    f.workers + Len(PortList(p, f).ports) + (IF p = "monitor" THEN 1 ELSE 0)

CommandLines(p) ==
    LET all ==
          UNION {UNION {{[targets |-> tg, target |-> HostA, start |-> r.start,
                          end |-> r.end, workers |-> n,
                          timeout |-> DefaultTimeout, ports |-> pf] :
                            n \in 0..MaxLoad, r \in RangeChoices(pf)} :
                        tg \in IF p = "basic" THEN {<<>>} ELSE TargetsFlagValues} :
                    pf \in IF p = "scanner" THEN PortsFlagValues \cup {<<>>}
                           ELSE {<<>>}}
    IN {f \in all : Load(p, f) <= MaxLoad}

(***************************************************************************)
(* The engine's values.                                                    *)
(***************************************************************************)
Free == 0           \* mutex holder: nobody
Monitor == 0 - 1    \* mutex holder: the progress monitor (workers are 1..N)

\* make(chan T, n)
MakeChan(n) == [buf |-> <<>>, cap |-> n, closed |-> FALSE]

\* A send can complete when the buffer has room. With capacity 0 a send needs
\* a receiver at the channel at the same moment: tasks has capacity 0 only
\* when no worker exists, results only when main receives nothing.
CanSend(ch) == Len(ch.buf) < ch.cap

CanRecv(ch) == ch.buf # <<>>

\* Mutant: the result is built without its port.
NewResultNoPort(target, port) ==
    [Target |-> target, Port |-> 0, Open |-> FALSE, Banner |-> <<>>]

\* ScanResult{Target: target, Port: port}
NewResult(target, port) ==
    [Target |-> target, Port |-> port, Open |-> FALSE, Banner |-> <<>>]

NoResult == NewResult(<<>>, 0)

\* A worker that waits for its first task.
NewWorker ==
    [pc |-> "recv", port |-> 0, result |-> NoResult, conn |-> FALSE,
     seen |-> 0]

NoSummary == [printed |-> FALSE]

Workers(tt) == DOMAIN wk[tt]

Scans == 1..Len(wk)

\* len(portsToScan); in the range-only programs end - start + 1.
TotalPorts == Len(portsToScan)

\* Goroutines run only while main has not returned.
Running == pc \notin {"done", "rejected"}

Init ==
    /\ prog \in Progs
    /\ flags \in CommandLines(prog)
    /\ net \in Networks
    /\ pc = "start"
    /\ targetsToScan = <<>>
    /\ portsToScan = <<>>
    /\ t = 0
    /\ i = 0
    /\ scanResults = <<>>
    /\ openPorts = 0
    /\ allResults = <<>>
    /\ summary = NoSummary
    /\ tasks = <<>>
    /\ results = <<>>
    /\ wg = <<>>
    /\ mutex = <<>>
    /\ progress = <<>>
    /\ wk = <<>>
    /\ prod = <<>>
    /\ mon = <<>>
    /\ conns = <<>>
    /\ published = <<>>
    /\ collected = <<>>

(***************************************************************************)
(* main                                                                    *)
(***************************************************************************)
\* Targets and ports from the flags; an invalid -start/-end range returns.
MainParse ==
    /\ pc = "start"
    /\ targetsToScan' = TargetList(prog, flags)
    /\ LET pl == PortList(prog, flags)
       IN IF pl.rejected
          THEN /\ pc' = "rejected"
               /\ portsToScan' = portsToScan
          ELSE /\ pc' = "loop"
               /\ portsToScan' = pl.ports
    /\ UNCHANGED <<prog, flags, net, t, i, scanResults, openPorts, allResults,
                   summary, tasks, results, wg, mutex, progress, wk, prod, mon,
                   published, collected, conns>>

\* The goroutine of the progress monitor, which only one program starts.
NewMonitor ==
    IF prog = "monitor"
    THEN [pc |-> "lock", current |-> 0, sampled |-> FALSE]
    ELSE [pc |-> "none", current |-> 0, sampled |-> FALSE]

\* Mutant: the task channel is given room for every port.
TasksCapTotal == TotalPorts

\* tasks := make(chan int, *workers)
TasksCap == flags.workers

\* Mutant: the result channel is given the task channel's capacity.
ResultsCapWorkers == flags.workers

\* results := make(chan ScanResult, totalPorts)
ResultsCap == TotalPorts

\* Mutant: the two declarations exchanged, the tally starts again at every
\* target where it should run over all of them.
TallyRestarts == IF prog = "monitor" THEN openPorts ELSE 0

\* The tally of open ports at the start of a target's scan: declared once
\* before the target loop, or (the program with the progress monitor) inside
\* the loop.
TallyAtSetup == IF prog = "monitor" THEN 0 ELSE openPorts

\* One pass of the target loop up to the collect loop: fresh channels, wait
\* group, mutex and counter; the workers, the monitor and the producer are
\* started. (No started goroutine can act on another's state before the
\* producer runs, so the starts are one step.)
MainSetup ==
    /\ pc = "loop"
    /\ t < Len(targetsToScan)
    /\ t' = t + 1
    /\ tasks' = Append(tasks, MakeChan(TasksCap))
    /\ results' = Append(results, MakeChan(ResultsCap))
    /\ conns' = Append(conns, 0)
    /\ wg' = Append(wg, flags.workers)
    /\ mutex' = Append(mutex, Free)
    /\ progress' = Append(progress, 0)
    /\ wk' = Append(wk, [w \in 1..flags.workers |-> NewWorker])
    /\ mon' = Append(mon, NewMonitor)
    /\ prod' = Append(prod, [pc |-> "send", k |-> 1])
    /\ published' = Append(published, <<>>)
    /\ collected' = Append(collected, <<>>)
    /\ i' = 0
    /\ scanResults' = <<>>
    /\ openPorts' = TallyAtSetup
    /\ pc' = "collect"
    /\ UNCHANGED <<prog, flags, net, targetsToScan, portsToScan, allResults,
                   summary>>

\* Mutant: every received result is taken as open.
IsOpenAlways(m) == TRUE

\* What a received result says: a ScanResult's Open, or port > 0.
IsOpen(m) == IF prog = "basic" THEN m > 0 ELSE m.Open

\* Mutant: the collect loop stops one result short.
CollectBoundShort == TotalPorts - 1

\* Mutant: the collect loop runs while i <= totalPorts.
CollectBoundInclusive == TotalPorts + 1

\* The collect loop runs while i < totalPorts.
CollectBound == TotalPorts

\* One pass of the collect loop: result := <-results.
MainCollect ==
    /\ pc = "collect"
    /\ i < CollectBound
    /\ CanRecv(results[t])
    /\ LET result == Head(results[t].buf)
       IN /\ results' = [results EXCEPT ![t].buf = Tail(@)]
          /\ collected' = [collected EXCEPT ![t] = Append(@, result)]
          /\ IF IsOpen(result)
             THEN /\ openPorts' = openPorts + 1
                  /\ scanResults' = IF prog = "basic" THEN scanResults
                                    ELSE Append(scanResults, result)
             ELSE UNCHANGED <<openPorts, scanResults>>
    /\ i' = i + 1
    /\ UNCHANGED <<prog, flags, net, pc, targetsToScan, portsToScan, t,
                   allResults, summary, tasks, wg, mutex, progress, wk, prod,
                   mon, published, conns>>

\* Mutant: main does not wait for the workers.
WaitSkipped(tt) == TRUE

\* wg.Wait() returns when the counter is zero.
WaitReturns(tt) == wg[tt] = 0

\* Mutant: the target's results are put in front of the global list.
Prepended(all, rs) == rs \o all

\* allResults = append(allResults, scanResults...)
Appended(all, rs) == all \o rs

\* After the collect loop: wg.Wait(), then the target's open results join
\* the global list.
MainWait ==
    /\ pc = "collect"
    /\ ~(i < CollectBound)
    /\ WaitReturns(t)
    /\ allResults' = IF prog = "basic" THEN allResults
                     ELSE Appended(allResults, scanResults)
    /\ pc' = "loop"
    /\ UNCHANGED <<prog, flags, net, targetsToScan, portsToScan, t, i,
                   scanResults, openPorts, summary, tasks, results, wg, mutex,
                   progress, wk, prod, mon, published, collected, conns>>

\* What main prints after the last target.
Summary ==
    CASE prog = "scanner" ->
           [printed |-> TRUE, Targets |-> targetsToScan, OpenPorts |-> openPorts,
            TotalPorts |-> Len(portsToScan), Workers |-> flags.workers,
            TimeoutSeconds |-> flags.timeout, Results |-> allResults]
      [] prog = "monitor" ->
           [printed |-> TRUE, OpenPorts |-> Len(allResults),
            Results |-> allResults]
      [] OTHER ->
           [printed |-> TRUE, OpenPorts |-> openPorts, TotalPorts |-> TotalPorts]

MainOutput ==
    /\ pc = "loop"
    /\ t = Len(targetsToScan)
    /\ summary' = Summary
    /\ pc' = "done"
    /\ UNCHANGED <<prog, flags, net, targetsToScan, portsToScan, t, i,
                   scanResults, openPorts, allResults, tasks, results, wg, mutex,
                   progress, wk, prod, mon, published, collected, conns>>

(***************************************************************************)
(* The producer goroutine of target tt.                                    *)
(***************************************************************************)
\* tasks <- port
ProducerSend(tt) ==
    /\ Running
    /\ prod[tt].pc = "send"
    /\ prod[tt].k <= Len(portsToScan)
    /\ CanSend(tasks[tt])
    /\ tasks' = [tasks EXCEPT ![tt].buf = Append(@, portsToScan[prod[tt].k])]
    /\ prod' = [prod EXCEPT ![tt].k = @ + 1]
    /\ UNCHANGED <<prog, flags, net, pc, targetsToScan, portsToScan, t, i,
                   scanResults, openPorts, allResults, summary, results, wg,
                   mutex, progress, wk, mon, published, collected, conns>>

\* Mutant: the producer returns without closing the task channel.
ProducerNoClose(tt) ==
    /\ Running
    /\ prod[tt].pc = "send"
    /\ prod[tt].k > Len(portsToScan)
    /\ prod' = [prod EXCEPT ![tt].pc = "done"]
    /\ UNCHANGED <<prog, flags, net, pc, targetsToScan, portsToScan, t, i,
                   scanResults, openPorts, allResults, summary, tasks, results,
                   wg, mutex, progress, wk, mon, published, collected, conns>>

\* close(tasks)
ProducerClose(tt) ==
    /\ Running
    /\ prod[tt].pc = "send"
    /\ prod[tt].k > Len(portsToScan)
    /\ tasks' = [tasks EXCEPT ![tt].closed = TRUE]
    /\ prod' = [prod EXCEPT ![tt].pc = "done"]
    /\ UNCHANGED <<prog, flags, net, pc, targetsToScan, portsToScan, t, i,
                   scanResults, openPorts, allResults, summary, results, wg,
                   mutex, progress, wk, mon, published, collected, conns>>

(***************************************************************************)
(* Worker w of target tt.                                                  *)
(***************************************************************************)
WorkerUnchanged ==
    UNCHANGED <<prog, flags, net, pc, targetsToScan, portsToScan, t, i,
                scanResults, openPorts, allResults, summary, prod, mon,
                collected>>

\* for port := range tasks: a task is received.
WorkerRecv(tt, w) ==
    /\ Running
    /\ wk[tt][w].pc = "recv"
    /\ CanRecv(tasks[tt])
    /\ LET port == Head(tasks[tt].buf)
       IN wk' = [wk EXCEPT ![tt][w] =
                    [pc |-> "dial", port |-> port,
                     result |-> NewResult(targetsToScan[tt], port),
                     conn |-> FALSE, seen |-> 0]]
    /\ tasks' = [tasks EXCEPT ![tt].buf = Tail(@)]
    /\ UNCHANGED <<results, wg, mutex, progress, conns, published>>
    /\ WorkerUnchanged

\* for port := range tasks: closed and drained, the worker returns and its
\* deferred wg.Done() runs.
WorkerExit(tt, w) ==
    /\ Running
    /\ wk[tt][w].pc = "recv"
    /\ ~CanRecv(tasks[tt])
    /\ tasks[tt].closed
    /\ wk' = [wk EXCEPT ![tt][w].pc = "exit"]
    /\ wg' = [wg EXCEPT ![tt] = @ - 1]
    /\ UNCHANGED <<tasks, results, mutex, progress, conns, published>>
    /\ WorkerUnchanged

\* Where a worker goes with an established connection: the banner read, or
\* (the program without banners) straight to Close.
AfterConnect == IF prog = "basic" THEN "close" ELSE "read"

\* Mutant: the banner is read but the result is not marked open.
ConnectedNotMarked(me) == [me EXCEPT !.pc = AfterConnect, !.conn = TRUE]

\* err == nil: result.Open = true, and the connection is held.
Connected(me) ==
    [me EXCEPT !.pc = AfterConnect, !.conn = TRUE, !.result.Open = TRUE]

\* net.DialTimeout: a connection, or an error of any kind.
WorkerDial(tt, w) ==
    /\ Running
    /\ wk[tt][w].pc = "dial"
    /\ LET me == wk[tt][w]
           l == Listener(net, me.result.Target, me.port)
       IN /\ wk' = [wk EXCEPT ![tt][w] =
                       IF l.accept THEN Connected(me)
                       ELSE [me EXCEPT !.pc = "send"]]
          /\ conns' = [conns EXCEPT ![tt] = IF l.accept THEN @ + 1 ELSE @]
    /\ UNCHANGED <<tasks, results, wg, mutex, progress, published>>
    /\ WorkerUnchanged

\* n, _ := conn.Read(banner): at most the buffer's size of what the peer sent.
BytesRead(bytes) ==
    IF Len(bytes) <= BannerBufSize THEN bytes ELSE SubSeq(bytes, 1, BannerBufSize)

\* The banner stored for the bytes read; nothing is stored when n = 0.
BannerOf(old, read) == IF Len(read) > 0 THEN TrimSpace(read) ELSE old

\* Mutant: Close is called only where a banner was read.
AfterReadOfBanner(read) == IF Len(read) > 0 THEN "close" ELSE "send"

\* conn.Close() follows the read, whatever n was.
AfterRead(read) == "close"

\* conn.SetReadDeadline; n, _ := conn.Read(banner); if n > 0 the banner is
\* stored.
WorkerRead(tt, w) ==
    /\ Running
    /\ wk[tt][w].pc = "read"
    /\ LET me == wk[tt][w]
           read == BytesRead(Listener(net, me.result.Target, me.port).bytes)
       IN wk' = [wk EXCEPT ![tt][w] =
                    [me EXCEPT !.pc = AfterRead(read),
                               !.result.Banner = BannerOf(@, read)]]
    /\ UNCHANGED <<tasks, results, wg, mutex, progress, conns, published>>
    /\ WorkerUnchanged

\* conn.Close()
WorkerClose(tt, w) ==
    /\ Running
    /\ wk[tt][w].pc = "close"
    /\ wk' = [wk EXCEPT ![tt][w].pc = "send", ![tt][w].conn = FALSE]
    /\ conns' = [conns EXCEPT ![tt] = @ - 1]
    /\ UNCHANGED <<tasks, results, wg, mutex, progress, published>>
    /\ WorkerUnchanged

\* What a worker sends: its ScanResult, or the port (0 when closed).
Message(me) ==
    IF prog = "basic" THEN (IF me.result.Open THEN me.port ELSE 0)
    ELSE me.result

\* Where a worker goes after its send: the counter's mutex, or (the program
\* without a counter) the next task.
AfterSend(me) ==
    IF prog = "basic" THEN NewWorker ELSE [me EXCEPT !.pc = "lock"]

\* Mutant: only the results of open ports are sent.
WorkerSendOpenOnly(tt, w) ==
    /\ Running
    /\ wk[tt][w].pc = "send"
    /\ IF wk[tt][w].result.Open
       THEN /\ CanSend(results[tt])
            /\ results' = [results EXCEPT
                              ![tt].buf = Append(@, Message(wk[tt][w]))]
            /\ published' = [published EXCEPT
                                ![tt] = Append(@, Message(wk[tt][w]))]
       ELSE UNCHANGED <<results, published>>
    /\ wk' = [wk EXCEPT ![tt][w] = AfterSend(@)]
    /\ UNCHANGED <<tasks, wg, mutex, progress, conns>>
    /\ WorkerUnchanged

\* results <- result
WorkerSend(tt, w) ==
    /\ Running
    /\ wk[tt][w].pc = "send"
    /\ CanSend(results[tt])
    /\ results' = [results EXCEPT ![tt].buf = Append(@, Message(wk[tt][w]))]
    /\ published' = [published EXCEPT ![tt] = Append(@, Message(wk[tt][w]))]
    /\ wk' = [wk EXCEPT ![tt][w] = AfterSend(@)]
    /\ UNCHANGED <<tasks, wg, mutex, progress, conns>>
    /\ WorkerUnchanged

\* Mutant: Lock returns without waiting for the holder.
LockGrantedAlways(tt) == TRUE

\* mutex.Lock() returns when nobody holds the mutex.
LockGranted(tt) == mutex[tt] = Free

\* mutex.Lock()
WorkerLock(tt, w) ==
    /\ Running
    /\ wk[tt][w].pc = "lock"
    /\ LockGranted(tt)
    /\ mutex' = [mutex EXCEPT ![tt] = w]
    /\ wk' = [wk EXCEPT ![tt][w].pc = "incr"]
    /\ UNCHANGED <<tasks, results, wg, progress, conns, published>>
    /\ WorkerUnchanged

\* Mutant: the counter is advanced twice for a task.
IncrementedTwice(n) == n + 2

\* *progress++
Incremented(n) == n + 1

\* *progress++ reads the counter ...
WorkerLoad(tt, w) ==
    /\ Running
    /\ wk[tt][w].pc = "incr"
    /\ wk' = [wk EXCEPT ![tt][w].pc = "store", ![tt][w].seen = progress[tt]]
    /\ UNCHANGED <<tasks, results, wg, mutex, progress, conns, published>>
    /\ WorkerUnchanged

\* ... and writes it back one higher; mutex.Unlock(); the loop's next pass.
WorkerIncr(tt, w) ==
    /\ Running
    /\ wk[tt][w].pc = "store"
    /\ progress' = [progress EXCEPT ![tt] = Incremented(wk[tt][w].seen)]
    /\ mutex' = [mutex EXCEPT ![tt] = Free]
    /\ wk' = [wk EXCEPT ![tt][w] = NewWorker]
    /\ UNCHANGED <<tasks, results, wg, conns, published>>
    /\ WorkerUnchanged

(***************************************************************************)
(* The progress monitor of target tt.                                      *)
(***************************************************************************)
MonitorUnchanged ==
    UNCHANGED <<prog, flags, net, pc, targetsToScan, portsToScan, t, i,
                scanResults, openPorts, allResults, summary, tasks, results, wg,
                progress, wk, prod, published, collected, conns>>

\* mutex.Lock()
MonitorLock(tt) ==
    /\ Running
    /\ mon[tt].pc = "lock"
    /\ LockGranted(tt)
    /\ mutex' = [mutex EXCEPT ![tt] = Monitor]
    /\ mon' = [mon EXCEPT ![tt].pc = "read"]
    /\ MonitorUnchanged

\* current := progress; mutex.Unlock(); the line is printed; return when
\* current >= totalPorts, else sleep and go round again.
MonitorSample(tt) ==
    /\ Running
    /\ mon[tt].pc = "read"
    /\ mutex' = [mutex EXCEPT ![tt] = Free]
    /\ mon' = [mon EXCEPT ![tt] =
                  [pc |-> IF progress[tt] >= TotalPorts THEN "done" ELSE "lock",
                   current |-> progress[tt], sampled |-> TRUE]]
    /\ MonitorUnchanged

(***************************************************************************)
(* The program.                                                            *)
(***************************************************************************)
Next ==
    \/ MainParse
    \/ MainSetup
    \/ MainCollect
    \/ MainWait
    \/ MainOutput
    \/ \E tt \in Scans : ProducerSend(tt)
    \/ \E tt \in Scans : ProducerClose(tt)
    \/ \E tt \in Scans : \E w \in Workers(tt) : WorkerRecv(tt, w)
    \/ \E tt \in Scans : \E w \in Workers(tt) : WorkerExit(tt, w)
    \/ \E tt \in Scans : \E w \in Workers(tt) : WorkerDial(tt, w)
    \/ \E tt \in Scans : \E w \in Workers(tt) : WorkerRead(tt, w)
    \/ \E tt \in Scans : \E w \in Workers(tt) : WorkerClose(tt, w)
    \/ \E tt \in Scans : \E w \in Workers(tt) : WorkerSend(tt, w)
    \/ \E tt \in Scans : \E w \in Workers(tt) : WorkerLock(tt, w)
    \/ \E tt \in Scans : \E w \in Workers(tt) : WorkerLoad(tt, w)
    \/ \E tt \in Scans : \E w \in Workers(tt) : WorkerIncr(tt, w)
    \/ \E tt \in Scans : MonitorLock(tt)
    \/ \E tt \in Scans : MonitorSample(tt)

Spec == Init /\ [][Next]_vars

(***************************************************************************)
(* Scheduling. Every goroutine that can run is eventually run (the Go      *)
(* scheduler preempts), so main, the producers and the monitors are weakly *)
(* fair. A worker that waits for the mutex or at a channel gets its turn   *)
(* although others take turns in between (sync.Mutex hands over to a       *)
(* starving waiter; a channel queues its waiters first in, first out), so  *)
(* the workers are strongly fair.                                          *)
(*                                                                         *)
(* The fair specification runs the command lines of load <= MaxFairLoad    *)
(* that scan a -start/-end range or give a -ports value of which no token  *)
(* is kept, against the network "lab".                                     *)
(***************************************************************************)
MaxFairLoad == 3

\* The most targets a command line names, and the most workers it starts.
TargetSlots ==
    1..Len(TargetList("scanner", [targets |-> <<"a", ",", "b">>, target |-> HostA]))

WorkerSlots == 1..MaxFairLoad

MainStep == MainParse \/ MainSetup \/ MainCollect \/ MainWait \/ MainOutput

ProducerStep(tt) == tt \in Scans /\ (ProducerSend(tt) \/ ProducerClose(tt))

WorkerStep(tt, w) ==
    /\ tt \in Scans
    /\ w \in Workers(tt)
    /\ \/ WorkerRecv(tt, w)
       \/ WorkerExit(tt, w)
       \/ WorkerDial(tt, w)
       \/ WorkerRead(tt, w)
       \/ WorkerClose(tt, w)
       \/ WorkerSend(tt, w)
       \/ WorkerLock(tt, w)
       \/ WorkerLoad(tt, w)
       \/ WorkerIncr(tt, w)

MonitorStep(tt) == tt \in Scans /\ (MonitorLock(tt) \/ MonitorSample(tt))

Fairness ==
    /\ WF_vars(MainStep)
    /\ \A tt \in TargetSlots :
           /\ WF_vars(ProducerStep(tt))
           /\ WF_vars(MonitorStep(tt))
           /\ \A w \in WorkerSlots : SF_vars(WorkerStep(tt, w))

FairInit ==
    /\ Init
    /\ Load(prog, flags) <= MaxFairLoad
    /\ flags.ports \in {<<>>, <<"0", ",", "x", ",", ",", "6", "5", "5", "3", "6">>}
    /\ net = "lab"

FairSpec == FairInit /\ [][Next]_vars /\ Fairness

(***************************************************************************)
(* Notions the properties share.                                           *)
(***************************************************************************)
Range(s) == {s[k] : k \in DOMAIN s}

\* The bag of a sequence's elements.
BagOfSeq(s) == [x \in Range(s) |-> Cardinality({k \in DOMAIN s : s[k] = x})]

\* The ports of a sequence of ScanResults.
PortsOf(rs) == [k \in DOMAIN rs |-> rs[k].Port]

\* The scan of target tt has ended: main is past its wg.Wait().
ScanEnded(tt) == tt < t \/ (tt = t /\ pc \in {"loop", "done"})

\* Worker w of target tt holds a task whose result is not yet sent.
Holding(tt, w) == wk[tt][w].pc \in {"dial", "read", "close", "send"}

\* The ports held by the workers of target tt, as a bag.
RECURSIVE HeldPorts(_, _)
HeldPorts(tt, ws) ==
    IF ws = {} THEN EmptyBag
    ELSE LET w == CHOOSE x \in ws : TRUE
         IN (IF Holding(tt, w) THEN SetToBag({wk[tt][w].port}) ELSE EmptyBag)
            (+) HeldPorts(tt, ws \ {w})

\* The ports the producer of target tt has yet to send.
Unsent(tt) == SubSeq(portsToScan, prod[tt].k, Len(portsToScan))

\* The programs whose workers publish ScanResults.
PublishesScanResults == prog \in {"scanner", "monitor"}

(***************************************************************************)
(* C1: for every target, port list and worker count N >= 1, main's collect *)
(* loop has received exactly len(P) results when the scan of the target    *)
(* ends, and then no result is left in the result channel and no worker    *)
(* has a result still to send.                                             *)
(***************************************************************************)
C1_ExactlyLenResults ==
    \A tt \in Scans :
        (flags.workers >= 1 /\ ScanEnded(tt)) =>
            /\ Len(collected[tt]) = Len(portsToScan)
            /\ Len(published[tt]) = Len(portsToScan)
            /\ results[tt].buf = <<>>
            /\ \A w \in Workers(tt) : ~Holding(tt, w)
            /\ tasks[tt].buf = <<>>
            /\ Unsent(tt) = <<>>

\* Two workers have scanned a list with a duplicate port for two targets.
C1_Witness ==
    /\ pc = "done"
    /\ flags.workers = 2
    /\ portsToScan = <<1, 1>>
    /\ Len(targetsToScan) = 2
    /\ Len(collected[1]) = 2
    /\ Len(collected[2]) = 2

(***************************************************************************)
(* C2: under every interleaving each port put into the task channel is     *)
(* with exactly one holder (unsent, in the channel, with one worker, or    *)
(* published once), every published ScanResult names the target of its     *)
(* scan, and when the scan has ended the bag of published ports is the bag *)
(* of the port list.                                                       *)
(***************************************************************************)
C2_EachPortOnce ==
    PublishesScanResults =>
        \A tt \in Scans :
            /\ BagOfSeq(Unsent(tt)) (+) BagOfSeq(tasks[tt].buf)
                   (+) HeldPorts(tt, Workers(tt))
                   (+) BagOfSeq(PortsOf(published[tt]))
               = BagOfSeq(portsToScan)
            /\ \A k \in DOMAIN published[tt] :
                   published[tt][k].Target = targetsToScan[tt]
            /\ \A w \in Workers(tt) :
                   Holding(tt, w) =>
                       /\ wk[tt][w].result.Port = wk[tt][w].port
                       /\ wk[tt][w].result.Target = targetsToScan[tt]
            /\ (flags.workers >= 1 /\ ScanEnded(tt)) =>
                   BagOfSeq(PortsOf(published[tt])) = BagOfSeq(portsToScan)

\* Two workers each hold one of the two tasks of the second target.
C2_Witness ==
    /\ PublishesScanResults
    /\ t = 2
    /\ flags.workers = 2
    /\ Len(portsToScan) = 2
    /\ \A w \in Workers(2) : Holding(2, w)
    /\ wk[2][1].port # wk[2][2].port

(***************************************************************************)
(* C3: with at least one worker (also with more workers than ports), and   *)
(* under fair scheduling, the run ends: every target's task channel is     *)
(* closed, every worker has exited, main is past every wg.Wait() and the   *)
(* summary is printed (or the range was rejected). Until then some step is *)
(* always possible: no state is a deadlock.                                *)
(***************************************************************************)
Terminated == pc \in {"done", "rejected"}

Finished ==
    \/ pc = "rejected"
    \/ /\ pc = "done"
       /\ summary.printed
       /\ Len(wk) = Len(targetsToScan)
       /\ \A tt \in Scans :
              /\ tasks[tt].closed
              /\ prod[tt].pc = "done"
              /\ wg[tt] = 0
              /\ \A w \in Workers(tt) : wk[tt][w].pc = "exit"

\* C3: with N >= 1 no state is a deadlock, a finished run has closed every
\* task channel and seen every worker exit, and fairly scheduled runs finish.
C3_ScanTerminates ==
    /\ [](flags.workers >= 1 => (Terminated \/ ENABLED Next))
    /\ [](flags.workers >= 1 /\ Terminated => Finished)
    /\ (flags.workers >= 1) ~> Finished

\* A run with more workers than ports has ended, the surplus worker exited.
C3_Witness ==
    /\ pc = "done"
    /\ Finished
    /\ flags.workers > Len(portsToScan)
    /\ Len(portsToScan) >= 1
    /\ Len(targetsToScan) = 2
    /\ Len(published[2]) = Len(portsToScan)

(***************************************************************************)
(* C4: with an empty port list (every -ports token rejected) main is never *)
(* blocked and, scheduled fairly, finishes every target's scan: nothing is *)
(* sent on the task channel, nothing is published or collected, with       *)
(* workers the task channel is closed and the workers have exited when the *)
(* scan ends, and the summary has 0 total ports, 0 open ports and no       *)
(* result.                                                                 *)
(***************************************************************************)
EmptyPortList == pc \notin {"start", "rejected"} /\ portsToScan = <<>>

C4_EmptyListState ==
    EmptyPortList =>
        /\ Terminated \/ ENABLED Next
        /\ \A tt \in Scans :
               /\ tasks[tt].buf = <<>>
               /\ published[tt] = <<>>
               /\ collected[tt] = <<>>
               /\ \A w \in Workers(tt) : wk[tt][w].pc \in {"recv", "exit"}
               /\ (flags.workers >= 1 /\ ScanEnded(tt)) =>
                      /\ tasks[tt].closed
                      /\ \A w \in Workers(tt) : wk[tt][w].pc = "exit"
        /\ pc = "done" =>
               /\ Len(wk) = Len(targetsToScan)
               /\ summary.TotalPorts = 0
               /\ summary.OpenPorts = 0
               /\ prog = "scanner" => summary.Results = <<>>

\* C4: with an empty port list the state property always holds and the run
\* reaches the summary.
C4_EmptyPortListCompletes ==
    /\ []C4_EmptyListState
    /\ EmptyPortList ~> (pc = "done")

\* Two targets were scanned with workers and a -ports value of no valid token.
C4_Witness ==
    /\ pc = "done"
    /\ flags.ports # <<>>
    /\ portsToScan = <<>>
    /\ flags.workers >= 2
    /\ Len(targetsToScan) = 2
    /\ summary.TotalPorts = 0

(***************************************************************************)
(* C5: every ScanResult a worker publishes with open = false has an empty  *)
(* banner; a banner is only on a result whose dial was accepted. The same  *)
(* holds of every result a worker is building and of every result main     *)
(* keeps.                                                                  *)
(***************************************************************************)
BannerOnlyIfOpen(r) ==
    /\ ~r.Open => r.Banner = <<>>
    /\ r.Banner # <<>> => r.Open /\ Listener(net, r.Target, r.Port).accept

\* C5: open = false implies an empty banner, on every result.
C5_ClosedHasNoBanner ==
    PublishesScanResults =>
        /\ \A tt \in Scans :
               /\ \A k \in DOMAIN published[tt] : BannerOnlyIfOpen(published[tt][k])
               /\ \A w \in Workers(tt) :
                      Holding(tt, w) => BannerOnlyIfOpen(wk[tt][w].result)
        /\ \A k \in DOMAIN allResults : BannerOnlyIfOpen(allResults[k])

\* One scan has published a closed result and an open one with a banner.
C5_Witness ==
    /\ PublishesScanResults
    /\ \E tt \in Scans :
           \E k, j \in DOMAIN published[tt] :
               /\ ~published[tt][k].Open
               /\ published[tt][j].Open
               /\ published[tt][j].Banner # <<>>

(***************************************************************************)
(* C6: for a given network, whatever the worker count N >= 1 and the       *)
(* interleaving, the open (target, port) pairs of the final result list    *)
(* are exactly the pairs of targets x ports whose dial is accepted (in the *)
(* program that only counts: the count of open ports is the number of      *)
(* accepted ports).                                                        *)
(***************************************************************************)
AcceptedPairs ==
    {pr \in Range(targetsToScan) \X Range(portsToScan) :
        Listener(net, pr[1], pr[2]).accept}

\* C6: the open pairs reported at the end are exactly the accepted pairs.
C6_OpenSetIsAcceptedSet ==
    (pc = "done" /\ flags.workers >= 1) =>
        IF PublishesScanResults
        THEN /\ {<<allResults[k].Target, allResults[k].Port>> :
                    k \in DOMAIN allResults} = AcceptedPairs
             /\ \A k \in DOMAIN allResults : allResults[k].Open
        ELSE summary.OpenPorts =
                 Cardinality({j \in DOMAIN portsToScan :
                                 Listener(net, targetsToScan[1], portsToScan[j]).accept})

\* Two workers scanned 22 and 80, both open, and 80 was collected first.
C6_Witness ==
    /\ pc = "done"
    /\ flags.workers = 2
    /\ portsToScan = <<22, 80>>
    /\ Len(allResults) >= 2
    /\ allResults[1].Port = 80
    /\ allResults[2].Port = 22

(***************************************************************************)
(* C7: with -ports, exactly the integer tokens from 1 to 65535 are kept in *)
(* the port list: a token is dropped as out of range only when it is below *)
(* 1 or above 65535.                                                       *)
(***************************************************************************)
C7_PortsFlagKeepsPortRange ==
    (prog = "scanner" /\ flags.ports # <<>> /\ pc # "start") =>
        \A tok \in Range(Split(flags.ports)) :
            LET a == Atoi(tok)
            IN ~a.err =>
                   (a.val \in MinPort..MaxPort <=> a.val \in Range(portsToScan))

(***************************************************************************)
(* C8: every port in the port list, in a task channel, held by a worker or *)
(* published is in 1..65535; an invalid -start/-end range (start < 1,      *)
(* end > 65535 or start > end) ends the run with no channel and no worker  *)
(* created.                                                                *)
(***************************************************************************)
ValidPort(p) == p \in MinPort..MaxPort

RangeMode == prog # "scanner" \/ flags.ports = <<>>

NothingCreated ==
    /\ tasks = <<>>
    /\ results = <<>>
    /\ wk = <<>>
    /\ prod = <<>>
    /\ published = <<>>

\* C8: only ports in 1..65535 reach the engine; an invalid range starts nothing.
C8_OnlyValidPortsScanned ==
    /\ \A k \in DOMAIN portsToScan : ValidPort(portsToScan[k])
    /\ \A tt \in Scans :
           /\ \A k \in DOMAIN tasks[tt].buf : ValidPort(tasks[tt].buf[k])
           /\ \A w \in Workers(tt) : Holding(tt, w) => ValidPort(wk[tt][w].port)
           /\ PublishesScanResults =>
                  \A k \in DOMAIN published[tt] : ValidPort(published[tt][k].Port)
    /\ pc \in {"start", "rejected"} => NothingCreated
    /\ (RangeMode /\ (flags.start < 1 \/ flags.end > 65535
                         \/ flags.start > flags.end)) =>
           pc \in {"start", "rejected"}

\* Of "102,103,+2" the token 103 was dropped, and a worker dials port 2.
C8_Witness ==
    /\ prog = "scanner"
    /\ Len(Split(flags.ports)) = 3
    /\ portsToScan = <<102, 2>>
    /\ \E tt \in Scans : \E w \in Workers(tt) :
           wk[tt][w].pc = "dial" /\ wk[tt][w].port = 2

(***************************************************************************)
(* C9: within a target's scan the completion counter starts at 0, changes  *)
(* only by +1 and is never above the target's task count; every sample of  *)
(* the progress monitor is in 0..total and successive samples never        *)
(* decrease.                                                               *)
(***************************************************************************)
C9_CounterInRange ==
    \A tt \in Scans :
        /\ progress[tt] \in 0..Len(portsToScan)
        /\ mon[tt].current \in 0..Len(portsToScan)

C9_CounterStep ==
    \A tt \in DOMAIN progress' :
        IF tt \in DOMAIN progress
        THEN /\ progress'[tt] \in {progress[tt], progress[tt] + 1}
             /\ mon'[tt].current >= mon[tt].current
        ELSE progress'[tt] = 0

\* C9: the counter and the samples stay in 0..total; the counter steps by +1
\* from 0 and the samples never decrease.
C9_CounterBoundedMonotone == []C9_CounterInRange /\ [][C9_CounterStep]_vars

\* The monitor has sampled a counter that is neither 0 nor the total.
C9_Witness ==
    /\ prog = "monitor"
    /\ \E tt \in Scans :
           /\ mon[tt].sampled
           /\ mon[tt].current > 0
           /\ mon[tt].current < Len(portsToScan)

(***************************************************************************)
(* C10: targets are scanned one after another. When main is past a         *)
(* target's wg.Wait() (its results appended, the next target's workers     *)
(* started) all len(P) results of the target have been read and every      *)
(* worker of the target has exited; results in the global list are of      *)
(* targets whose scan has ended; workers of two targets are never alive    *)
(* at the same time.                                                       *)
(***************************************************************************)
Alive(tt) == \E w \in Workers(tt) : wk[tt][w].pc # "exit"

\* C10: a target's scan is over (results read, workers exited) before the
\* next begins.
C10_TargetsOneAfterAnother ==
    /\ \A tt \in Scans :
           ScanEnded(tt) =>
               /\ Len(collected[tt]) = Len(portsToScan)
               /\ ~Alive(tt)
    /\ \A k \in DOMAIN allResults :
           \E tt \in Scans : ScanEnded(tt) /\ allResults[k].Target = targetsToScan[tt]
    /\ \A tt \in Scans : \A uu \in Scans : tt # uu => ~(Alive(tt) /\ Alive(uu))

\* The second target's workers hold tasks; the first target's results are in.
C10_Witness ==
    /\ t = 2
    /\ allResults # <<>>
    /\ \A w \in Workers(2) : Holding(2, w)
    /\ flags.workers = 2


(***************************************************************************)
(* C11                                                                     *)
(***************************************************************************)
\* How many of the messages main received report an open port.
OpenCount(ms) ==
    Len(SelectSeq(ms, LAMBDA m : IF prog = "basic" THEN m > 0 ELSE m.Open))

RECURSIVE OpenUpTo(_)
\* The open results main received for the targets 1..tt.
OpenUpTo(tt) ==
    IF tt = 0 THEN 0 ELSE OpenUpTo(tt - 1) + OpenCount(collected[tt])

\* The current target's list, until it has joined the global list.
CurrentList == IF pc = "collect" THEN scanResults ELSE <<>>

\* C11: at every point of the run the tally of open ports equals the number
\* of open results received so far, which is the length of the global result
\* list plus the current target's list; every listed result is open; and the
\* open-port count of the final summary is the length of the result list it
\* reports, over all targets. (The program with the progress monitor keeps
\* its tally per target and reports the global list's length; the program
\* without result lists keeps the tally only.)
C11_TallyMatchesLists ==
    /\ \A k \in 1..Len(allResults) : allResults[k].Open
    /\ \A k \in 1..Len(scanResults) : scanResults[k].Open
    /\ prog = "scanner" =>
         /\ openPorts = OpenUpTo(Len(collected))
         /\ openPorts = Len(allResults) + Len(CurrentList)
    /\ prog = "monitor" =>
         /\ Len(allResults) + Len(CurrentList) = OpenUpTo(Len(collected))
         /\ openPorts = Len(scanResults)
         /\ t >= 1 => openPorts = OpenCount(collected[t])
    /\ prog = "basic" => openPorts = OpenUpTo(Len(collected))
    /\ summary.printed =>
         /\ summary.OpenPorts = OpenUpTo(Len(collected))
         /\ prog # "basic" => summary.OpenPorts = Len(summary.Results)

\* The summary of a run over two targets that both had open ports.
C11_Witness ==
    /\ prog = "scanner"
    /\ summary.printed
    /\ Len(targetsToScan) = 2
    /\ summary.OpenPorts = 3
    /\ OpenCount(collected[1]) = 2
    /\ OpenCount(collected[2]) = 1


(***************************************************************************)
(* C12                                                                     *)
(***************************************************************************)
\* The workers of target tt that have sent a result and not yet counted it.
Uncounted(tt) ==
    {w \in Workers(tt) : wk[tt][w].pc \in {"lock", "incr", "store"}}

\* C12: in every state of a target's scan the completion counter is at most
\* the number of results already sent to the target's result channel: the
\* counter is advanced only after the send, so it trails the published
\* results by exactly the workers that are between their send and their
\* increment.
C12_CounterTrailsPublished ==
    \A tt \in Scans :
        /\ progress[tt] <= Len(published[tt])
        /\ prog # "basic" =>
             Len(published[tt]) = progress[tt] + Cardinality(Uncounted(tt))

\* Two results are published, one of them counted, the other not yet.
C12_Witness ==
    \E tt \in Scans :
        /\ Len(published[tt]) = 2
        /\ progress[tt] = 1
        /\ \E w \in Workers(tt) : wk[tt][w].pc = "lock"


(***************************************************************************)
(* C13                                                                     *)
(***************************************************************************)
\* C13: the progress monitor never holds up the scan and always terminates:
\* main does not wait for it, and every target's monitor eventually takes a
\* sample with counter >= total and returns at that sample. A run is over
\* when main has returned, so every monitor must by then have returned with
\* such a sample.
C13_TrackerAlwaysExits ==
    (prog = "monitor" /\ pc = "done") =>
        \A tt \in Scans :
            /\ mon[tt].pc = "done"
            /\ mon[tt].current >= TotalPorts


(***************************************************************************)
(* C14                                                                     *)
(***************************************************************************)
\* The workers of target tt that hold a task whose result is not yet sent.
Holders(tt) == {w \in Workers(tt) : Holding(tt, w)}

\* C14: a worker's send on the result channel never blocks. In every state
\* at most len(P) results have been sent for a target, the results in the
\* channel together with those still to be sent by the workers are at most
\* len(P), the channel's capacity, and every worker that is at its send can
\* complete it, whether or not main has begun to receive.
C14_PublishNeverBlocks ==
    \A tt \in Scans :
        /\ Len(published[tt]) <= TotalPorts
        /\ Len(results[tt].buf) + Cardinality(Holders(tt)) <= TotalPorts
        /\ Len(results[tt].buf) <= results[tt].cap
        /\ \A w \in Workers(tt) :
               wk[tt][w].pc = "send" => CanSend(results[tt])

\* Main has received nothing yet, one of the two results waits in the
\* channel and a worker is about to send the other.
C14_Witness ==
    /\ pc = "collect"
    /\ i = 0
    /\ TotalPorts = 2
    /\ Len(results[t].buf) = 1
    /\ \E w \in Workers(t) : wk[t][w].pc = "send"


(***************************************************************************)
(* C15                                                                     *)
(***************************************************************************)
\* The phases of target tt's scan, as conditions on the state. A target
\* whose scan is not set up is Idle.
Dispatching(tt) == tt \in Scans

\* close(tasks) has run.
Draining(tt) == tasks[tt].closed

\* Main has received the last of the len(P) results.
Collected(tt) == Len(collected[tt]) = TotalPorts

\* Main is past wg.Wait().
Done(tt) == ScanEnded(tt)

\* C15 as stated: the scan passes through Idle, Dispatching, Draining,
\* Collected, Done in exactly that order, so the task channel is closed
\* before main has received the last of the len(P) results. (Stated for
\* scans of at least one port, where there is a last result.)
C15_DrainingBeforeCollected ==
    \A tt \in Scans : (TotalPorts >= 1 /\ Collected(tt)) => Draining(tt)

\* What holds of the phases in every state.
C15_PhaseState ==
    \A tt \in Scans :
        /\ Draining(tt) => Unsent(tt) = <<>>
        /\ Done(tt) => Collected(tt)
        /\ (Done(tt) /\ flags.workers >= 1) => Draining(tt)

\* No phase is left once it is entered.
C15_PhaseStep ==
    \A tt \in Scans :
        /\ Draining(tt) => Draining(tt)'
        /\ Collected(tt) => Collected(tt)'
        /\ Done(tt) => Done(tt)'

\* C15, amended: every port is dispatched before the task channel is closed
\* (Dispatching before Draining), main has received all len(P) results
\* before the scan is Done and, with at least one worker, the task channel
\* is closed before the scan is Done; no phase is left again. Draining and
\* Collected come in either order.
C15_PhasesBeforeDone == []C15_PhaseState /\ [][C15_PhaseStep]_vars

\* Main has received both results of a scan whose task channel is still
\* open.
C15_Witness ==
    \E tt \in Scans :
        /\ TotalPorts = 2
        /\ Collected(tt)
        /\ ~Draining(tt)
        /\ ~Done(tt)


(***************************************************************************)
(* C16                                                                     *)
(***************************************************************************)
RECURSIVE CollectedUpTo(_)
\* The results main received for the targets 1..tt.
CollectedUpTo(tt) ==
    IF tt = 0 THEN 0 ELSE CollectedUpTo(tt - 1) + Len(collected[tt])

\* C16: the summary's totals are accumulated over all targets: the reported
\* total of ports scanned is the number of results main received during the
\* run, summed over the targets, as the reported open-port count is the
\* number of open results summed over the targets.
C16_TotalIsResultsCollected ==
    (prog = "scanner" /\ summary.printed) =>
        /\ summary.OpenPorts = OpenUpTo(Len(collected))
        /\ summary.TotalPorts = CollectedUpTo(Len(collected))


(***************************************************************************)
(* C17                                                                     *)
(***************************************************************************)
RECURSIVE OpenListUpTo(_)
\* The open results of the targets 1..tt, target after target, each
\* target's in the order main received them.
OpenListUpTo(tt) ==
    IF tt = 0 THEN <<>>
    ELSE OpenListUpTo(tt - 1) \o SelectSeq(collected[tt], LAMBDA r : r.Open)

\* The targets whose results have joined the global list.
Joined == IF pc = "collect" THEN t - 1 ELSE t

\* The position in the target list of the target a result names.
TargetPos(r) ==
    CHOOSE k \in 1..Len(targetsToScan) : targetsToScan[k] = r.Target

\* C17: the global result list is grouped by target in the order of the
\* target list: it is the open results of the first target, then those of
\* the second, and so on, each target's in the order main received them
\* (which need not be the order of the ports); every result names the target
\* whose scan produced it.
C17_GroupedByTarget ==
    PublishesScanResults =>
        /\ allResults = OpenListUpTo(Joined)
        /\ \A tt \in Scans : \A k \in 1..Len(published[tt]) :
               published[tt][k].Target = targetsToScan[tt]
        /\ \A j, k \in 1..Len(allResults) :
               j < k => TargetPos(allResults[j]) <= TargetPos(allResults[k])

\* Both targets had open ports; the first target's came in against the port
\* order, and the second target's result follows them.
C17_Witness ==
    /\ pc = "done"
    /\ Len(targetsToScan) = 2
    /\ Len(allResults) = 3
    /\ allResults[1].Target = targetsToScan[1]
    /\ allResults[2].Target = targetsToScan[1]
    /\ allResults[1].Port > allResults[2].Port
    /\ allResults[3].Target = targetsToScan[2]


(***************************************************************************)
(* C18                                                                     *)
(***************************************************************************)
\* The workers of target tt that have a connection attempt under way.
Dialing(tt) == {w \in Workers(tt) : wk[tt][w].pc = "dial"}

\* The workers of target tt that hold an established connection.
Connecteds(tt) == {w \in Workers(tt) : wk[tt][w].conn}

\* C18: every connection a worker establishes is closed by that worker
\* before it sends the result and before it asks for the next port, whatever
\* the banner read returned: the connections open for a target are exactly
\* those held by workers between their dial and their Close, so those open
\* or being attempted never exceed the worker count N, and none is open once
\* the target's scan is done.
C18_ConnectionsClosed ==
    \A tt \in Scans :
        /\ conns[tt] = Cardinality(Connecteds(tt))
        /\ \A w \in Connecteds(tt) : wk[tt][w].pc \in {"read", "close"}
        /\ conns[tt] + Cardinality(Dialing(tt)) <= flags.workers
        /\ ScanEnded(tt) => conns[tt] = 0

\* A worker that found its port open, read no banner and closed its
\* connection is about to send, while another worker holds a connection.
C18_Witness ==
    \E tt \in Scans : \E w1, w2 \in Workers(tt) :
        /\ wk[tt][w1].pc = "send"
        /\ wk[tt][w1].result.Open
        /\ wk[tt][w1].result.Banner = <<>>
        /\ ~wk[tt][w1].conn
        /\ wk[tt][w2].conn
        /\ conns[tt] = 1


(***************************************************************************)
(* C19                                                                     *)
(***************************************************************************)
\* The workers of target tt between mutex.Lock() and mutex.Unlock().
InCritical(tt) == {w \in Workers(tt) : wk[tt][w].pc \in {"incr", "store"}}

\* 1 when the monitor of target tt is between Lock and Unlock.
MonitorInCritical(tt) == IF mon[tt].pc = "read" THEN 1 ELSE 0

\* At the end of a scan the counter has counted every port.
C19_AllCounted ==
    \A tt \in Scans :
        (ScanEnded(tt) /\ PublishesScanResults) => progress[tt] = TotalPorts

\* C19: the accesses to the completion counter are serialized: never are two
\* workers, or a worker and the progress monitor, in the counter's critical
\* section at once, and whoever is in it holds the mutex; so no increment is
\* lost (a worker writes back the value it read plus one while the counter
\* still has the value read), and once wg.Wait() has returned the counter is
\* exactly len(P).
C19_CounterSerialized ==
    /\ \A tt \in Scans :
           /\ Cardinality(InCritical(tt)) + MonitorInCritical(tt) <= 1
           /\ \A w \in InCritical(tt) : mutex[tt] = w
           /\ MonitorInCritical(tt) = 1 => mutex[tt] = Monitor
           /\ \A w \in Workers(tt) :
                  wk[tt][w].pc = "store" => wk[tt][w].seen = progress[tt]
    /\ C19_AllCounted

\* Main has received the last of two results while the counter is still 0:
\* one worker is in the critical section, the other waits for the mutex.
C19_Witness ==
    /\ pc = "collect"
    /\ TotalPorts = 2
    /\ i = TotalPorts
    /\ progress[t] = 0
    /\ \E w1, w2 \in Workers(t) :
           wk[t][w1].pc = "store" /\ wk[t][w2].pc = "lock"


(***************************************************************************)
(* C20                                                                     *)
(***************************************************************************)
\* A run with -workers 0 that is past the flags.
NoWorkers == flags.workers = 0 /\ pc \notin {"start", "rejected"}

\* C20: a worker count of 0 is not rejected. With a port list that is not
\* empty no worker is started and the task channel has no buffer, so the
\* producer stays at its first send, no result is ever published, main stays
\* at its first receive and the scan of the first target never completes:
\* once that scan is set up neither main nor the producer can take a step
\* (in the programs without a progress monitor nothing at all can). With an
\* empty port list the same run is never stuck before main has returned.
C20_NoWorkersNeverCompletes ==
    /\ (NoWorkers /\ portsToScan # <<>>) =>
          /\ pc \in {"loop", "collect"}
          /\ t <= 1
          /\ \A tt \in Scans :
                 /\ Workers(tt) = {}
                 /\ tasks[tt] = MakeChan(0)
                 /\ prod[tt] = [pc |-> "send", k |-> 1]
                 /\ published[tt] = <<>>
                 /\ collected[tt] = <<>>
                 /\ ~ScanEnded(tt)
          /\ pc = "collect" =>
                 /\ ~ENABLED MainStep
                 /\ \A tt \in Scans : ~ENABLED ProducerStep(tt)
                 /\ prog # "monitor" => ~ENABLED Next
    /\ (NoWorkers /\ portsToScan = <<>>) => (Terminated \/ ENABLED Next)

\* The deadlock: without workers the scan of the first target of three ports
\* is set up and nothing can run.
C20_Witness ==
    /\ prog = "scanner"
    /\ flags.workers = 0
    /\ Len(portsToScan) = 3
    /\ pc = "collect"
    /\ t = 1
    /\ ~ENABLED Next

====
